---- MODULE Spec2Model ----
(***************************************************************************)
(* Streaming multipart upload of a producer's output to S3                 *)
(* (lambda_mongo_utils: multipart_upload.py, backup_utils.py,              *)
(* mongo_utils.py).                                                        *)
(*                                                                         *)
(* A payload is not modelled byte by byte: a chunk is the slice            *)
(* [src, lo, hi] of the output of run src's producer, bytes lo+1..hi, so   *)
(* the program's own sizes (6,000,000 and 15,000,000 bytes) are kept.      *)
(* Two byte strings are equal iff their slice lists normalise to the same  *)
(* list (Bytes).                                                           *)
(***************************************************************************)
EXTENDS Integers, Sequences, FiniteSets, TLC

\* ------------------------------------------------------------- constants
PART_MINIMUM == 6000000
DEFAULT_CHUNK_SIZE == 15000000

\* ---------------------------------------------------------------- bounds
MaxStale == 2       \* live uploads left in the bucket by earlier runs
MaxHalves == 6      \* longest producer output, in halves of PART_MINIMUM
MaxCalls == 2       \* abort_all() calls made in a row by a direct caller
MaxRaceStale == 2   \* live uploads left in the bucket before two runs race

Keys == {"key1", "key2"}
Runs == {"r1", "r2"}
Kinds == {"main", "dump", "api", "abort"}

HalfPart == PART_MINIMUM \div 2

\* chunk_size arguments; 0 stands for None (chunk size not given)
ChunkSizeArgs == {0, HalfPart, PART_MINIMUM, 2 * PART_MINIMUM}

\* producer output lengths: whole halves of the minimum part, and one more
Lengths == {n * HalfPart + e : n \in 0..MaxHalves, e \in {0, 1}}
ExitCodes == {0, 1, 2}

\* what the producer writes to stderr: nothing, an amount the pipe holds, or
\* more than the pipe holds
StderrAmounts == {"none", "small", "large"}

\* inputs of the runs that race on the store
RaceKinds == {"main", "dump", "abort"}
RaceKeys == {"key1"}
RaceLengths == {1}
RaceChunkSizeArgs == {0}
RaceExitCodes == {0}
RaceStderrAmounts == {"none"}

\* inputs of the runs that dump and restore
RestoreKinds == {"main", "dump"}
\* document count mongorestore reports on stderr; <<>>: no such line
ReportedCounts == {<<>>, <<0>>, <<2>>}
\* number of duplicate-key lines mongorestore writes
DuplicateCounts == {0, 1}

\* elapsed times a measured block may take, in clock ticks (0: the clock
\* did not move)
Durations == {0, 1}

None == "None"

VARIABLES
    uploads,        \* store: UploadId -> [Key, state, parts], ids 1..Len
    objects,        \* store: key -> [upload, body], upload = 0: no object
    pc,             \* run -> position in its flow
    kind,           \* run -> which flow it runs
    key,            \* S3MultipartUpload.key
    chunk_size,     \* S3MultipartUpload.chunk_size
    capture_stderr, \* upload_from_stdout argument
    mpu_id,         \* upload id returned by create()
    mpu_ids,        \* abort_all: the listed ids
    idx,            \* abort_all: ids of mpu_ids the loop has gone through
    abortions,      \* abort_all: ids aborted so far
    nosuch,         \* ids the store answered NoSuchUpload for (history)
    site,           \* abort_all: which call of the flow is running
    pre_live,       \* live uploads of the key when abort_all listed (history)
    calls,          \* abort_all() calls that returned to a direct caller
    parts,          \* upload_from_stdout: part records
    uploaded_bytes, \* upload_from_stdout: total size
    i,              \* upload_from_stdout: next PartNumber
    chunk,          \* upload_from_stdout: chunk read and not yet uploaded
    process,        \* the producer: [state, L, rc, off, returncode, err, err_at]
    complete_calls, \* part lists complete() was called with (history)
    stats,          \* the orchestrator's BackupStats
    mongo_stats,    \* the MongoStats of mongo_dump / mongo_restore
    result,         \* what the orchestrator returned
    obj,            \* mongo_restore_from_s3: the get_object response
    exc             \* error raised in the run: [type, at], at = pc of the raise;
                    \* a CalledProcessError has its returncode too

storeVars == <<uploads, objects>>
selfVars == <<kind, key, chunk_size, capture_stderr>>
abortVars == <<mpu_ids, idx, abortions, nosuch, site, pre_live, calls>>
statsVars == <<stats, mongo_stats, result, obj>>
uploadVars == <<parts, uploaded_bytes, i, chunk, process, complete_calls>>
vars == <<uploads, objects, pc, kind, key, chunk_size, capture_stderr, mpu_id,
          mpu_ids, idx, abortions, nosuch, site, pre_live, calls, parts,
          uploaded_bytes, i, chunk, process, complete_calls, stats, mongo_stats,
          result, obj, exc>>

\* ------------------------------------------------------------- helpers
Range(s) == {s[n] : n \in DOMAIN s}

Min(a, b) == IF a < b THEN a ELSE b

NoObject == [upload |-> 0, body |-> <<>>]
NoChunk == [src |-> None, lo |-> 0, hi |-> 0]
NoProcess ==
    [state |-> "none", L |-> 0, rc |-> 0, off |-> 0, returncode |-> None,
     err |-> "none", err_at |-> 0]

SliceLen(c) == c.hi - c.lo

RECURSIVE SumLen(_)
SumLen(s) == IF s = <<>> THEN 0 ELSE SliceLen(Head(s)) + SumLen(Tail(s))

\* The bytes of a list of slices: empty slices dropped, adjacent slices of
\* one producer merged; equal lists are equal byte strings.
RECURSIVE Bytes(_)
Bytes(s) ==
    IF s = <<>> THEN <<>>
    ELSE LET h == Head(s)
             t == Bytes(Tail(s))
         IN  IF h.hi = h.lo THEN t
             ELSE IF t # <<>> /\ t[1].src = h.src /\ t[1].lo = h.hi
                  THEN <<[src |-> h.src, lo |-> h.lo, hi |-> t[1].hi]>> \o Tail(t)
                  ELSE <<h>> \o t

\* the whole output of run r's producer
Payload(r) == Bytes(<<[src |-> r, lo |-> 0, hi |-> process[r].L]>>)

\* the store's integrity tag of a part body
ETag(body) == <<"etag", body.src, body.lo, body.hi>>

LiveIds(k) == {u \in DOMAIN uploads : uploads[u].Key = k /\ uploads[u].state = "live"}

IsLive(u) == u \in DOMAIN uploads /\ uploads[u].state = "live"

\* ascending list of a set of upload ids (the store lists in creation order)
RECURSIVE SortedSeq(_)
SortedSeq(S) ==
    IF S = {} THEN <<>>
    ELSE LET m == CHOOSE x \in S : \A y \in S : x <= y
         IN  <<m>> \o SortedSeq(S \ {m})

NoExc == [type |-> None, at |-> None]

\* an exception no handler of the flow catches ends the run
Raise(r, e) ==
    /\ pc' = [pc EXCEPT ![r] = "failed"]
    /\ exc' = [exc EXCEPT ![r] = [type |-> e, at |-> pc[r]]]

\* ---------------------------------------------------------------- Init
StaleUploads ==
    UNION {[1..n -> [Key : Keys, state : {"live"}, parts : {<<>>}]] : n \in 0..MaxStale}

\* a field or name that holds None, or the value v
Nothing == <<>>
Just(v) == <<v>>

\* BackupStats(db=db, collection=collection, bucket=bucket, key=key)
BackupStats(k) ==
    [bucket |-> "bucket", key |-> k, num_docs |-> Nothing, time |-> Nothing,
     size |-> Nothing]

\* MongoStats(db=db, collection=collection)
MongoStats == [num_docs |-> Nothing, time |-> Nothing, duplicated_ids |-> Nothing]

\* mutant: the time is set in a finally clause
measure_exit_finally(t, raised, dt) == Just(dt)

\* measure(): t0 = time.time(); yield; self.time = time.time() - t0. The
\* time field after the measured block: an exception of the block is thrown
\* in at the yield and skips the assignment
measure_exit(t, raised, dt) == IF raised THEN t ELSE Just(dt)

\* no run has started
InitRuns ==
    /\ pc = [r \in Runs |-> "start"]
    /\ kind = [r \in Runs |-> None]
    /\ key = [r \in Runs |-> None]
    /\ chunk_size = [r \in Runs |-> 0]
    /\ capture_stderr = [r \in Runs |-> FALSE]
    /\ mpu_id = [r \in Runs |-> 0]
    /\ mpu_ids = [r \in Runs |-> <<>>]
    /\ idx = [r \in Runs |-> 0]
    /\ nosuch = [r \in Runs |-> {}]
    /\ abortions = [r \in Runs |-> <<>>]
    /\ site = [r \in Runs |-> None]
    /\ pre_live = [r \in Runs |-> {}]
    /\ calls = [r \in Runs |-> 0]
    /\ parts = [r \in Runs |-> <<>>]
    /\ uploaded_bytes = [r \in Runs |-> 0]
    /\ i = [r \in Runs |-> 0]
    /\ chunk = [r \in Runs |-> NoChunk]
    /\ process = [r \in Runs |-> NoProcess]
    /\ complete_calls = [r \in Runs |-> <<>>]
    /\ stats = [r \in Runs |-> Nothing]
    /\ mongo_stats = [r \in Runs |-> Nothing]
    /\ result = [r \in Runs |-> Nothing]
    /\ obj = [r \in Runs |-> Nothing]
    /\ exc = [r \in Runs |-> NoExc]

Init ==
    /\ uploads \in StaleUploads
    /\ objects = [k \in Keys |-> NoObject]
    /\ InitRuns

\* ------------------------------------------- S3MultipartUpload.__init__
effective_chunk_size(cs) == IF cs = 0 THEN DEFAULT_CHUNK_SIZE ELSE cs

\* mutant: any chunk size is accepted
chunk_size_accepted_any(cs) == cs >= 0

\* assert self.chunk_size >= self.PART_MINIMUM
chunk_size_accepted(cs) == cs >= PART_MINIMUM

\* mutant: the flows create their upload without the pre-cleanup
first_step_create(kd) == IF kd = "abort" THEN "abort_all" ELSE "create"

\* the first call a flow makes on its S3MultipartUpload: mpu.abort_all() in
\* main and mongo_dump_to_s3, create() in upload_from_stdout's direct caller
first_step(kd) == IF kd = "api" THEN "create" ELSE "abort_all"

\* A run starts by constructing its S3MultipartUpload; main() and the direct
\* abort_all caller give no chunk size, only upload_from_stdout's direct
\* caller may capture stderr.
construct(r, kd, k, cs, cap) ==
    /\ pc[r] = "start"
    /\ kd \in {"main", "abort"} => cs = 0
    /\ kd # "api" => cap = FALSE
    /\ kind' = [kind EXCEPT ![r] = kd]
    /\ key' = [key EXCEPT ![r] = k]
    /\ chunk_size' = [chunk_size EXCEPT ![r] = effective_chunk_size(cs)]
    /\ capture_stderr' = [capture_stderr EXCEPT ![r] = cap]
    /\ stats' = [stats EXCEPT ![r] = IF kd = "dump" THEN BackupStats(k) ELSE @]
    /\ IF chunk_size_accepted(effective_chunk_size(cs))
       THEN /\ pc' = [pc EXCEPT ![r] = first_step(kd)]
            /\ site' = [site EXCEPT ![r] = IF kd = "abort" THEN "call" ELSE "pre"]
            /\ exc' = exc
       ELSE /\ Raise(r, "AssertionError")
            /\ site' = site
    /\ UNCHANGED <<storeVars, mpu_id, mpu_ids, idx, abortions, nosuch, pre_live, calls,
                   uploadVars, mongo_stats, result, obj>>

\* ------------------------------------------ S3MultipartUpload.abort_all
\* s3.list_multipart_uploads(Bucket=self.bucket): the live uploads of the
\* bucket, of every key, in creation order; the response has no 'Uploads'
\* entry when there is none
list_multipart_uploads ==
    LET ids == SortedSeq({u \in DOMAIN uploads : uploads[u].state = "live"})
        ups == [n \in 1..Len(ids) |-> [Key |-> uploads[ids[n]].Key, UploadId |-> ids[n]]]
    IN  IF ups = <<>> THEN [Bucket |-> "bucket"]
        ELSE [Bucket |-> "bucket", Uploads |-> ups]

\* response.get('Uploads', [])
get_uploads(resp) == IF "Uploads" \in DOMAIN resp THEN resp.Uploads ELSE <<>>

UploadIdsOf(ups) == [n \in 1..Len(ups) |-> ups[n].UploadId]

\* mutant: the listing is not filtered on the key
abort_all_mpu_ids_any_key(r) == UploadIdsOf(get_uploads(list_multipart_uploads))

\* mutant: a run lists only the upload it created itself
abort_all_mpu_ids_own(r) ==
    UploadIdsOf(SelectSeq(get_uploads(list_multipart_uploads),
                          LAMBDA m : m.Key = key[r] /\ m.UploadId = mpu_id[r]))

\* mutant: only the upload listed first is taken
abort_all_mpu_ids_first(r) ==
    LET ups == SelectSeq(get_uploads(list_multipart_uploads), LAMBDA m : m.Key = key[r])
    IN  UploadIdsOf(SubSeq(ups, 1, Min(1, Len(ups))))

\* mpu_ids = [mpu['UploadId'] for mpu in ... if mpu['Key'] == self.key]
abort_all_mpu_ids(r) ==
    UploadIdsOf(SelectSeq(get_uploads(list_multipart_uploads), LAMBDA m : m.Key = key[r]))

\* the listing, and abortions = []
abort_all_list(r) ==
    /\ pc[r] = "abort_all"
    /\ mpu_ids' = [mpu_ids EXCEPT ![r] = abort_all_mpu_ids(r)]
    /\ idx' = [idx EXCEPT ![r] = 0]
    /\ abortions' = [abortions EXCEPT ![r] = <<>>]
    /\ nosuch' = [nosuch EXCEPT ![r] = {}]
    /\ pre_live' = [pre_live EXCEPT ![r] = LiveIds(key[r])]
    /\ pc' = [pc EXCEPT ![r] = "abort_all_loop"]
    /\ UNCHANGED <<storeVars, selfVars, statsVars, mpu_id, site, calls, uploadVars, exc>>

\* mutant: the id is appended whatever the store answered
abortions_after_always(ab, u, ok) == Append(ab, u)

\* try / except (KeyError, NoSuchUpload): pass / else: abortions.append:
\* the list of aborted ids after the abort call for u, answered (ok) or
\* refused with NoSuchUpload
abortions_after(ab, u, ok) == IF ok THEN Append(ab, u) ELSE ab

\* one turn of the loop: s3.abort_multipart_upload for the next listed id;
\* the store aborts the upload of that id if it is live, and answers
\* NoSuchUpload, which is swallowed, if it is gone
abort_all_abort(r) ==
    /\ pc[r] = "abort_all_loop"
    /\ idx[r] < Len(mpu_ids[r])
    /\ LET u == mpu_ids[r][idx[r] + 1] IN
       /\ idx' = [idx EXCEPT ![r] = @ + 1]
       /\ abortions' = [abortions EXCEPT ![r] = abortions_after(@, u, IsLive(u))]
       /\ IF IsLive(u)
          THEN /\ uploads' = [uploads EXCEPT ![u].state = "aborted"]
               /\ nosuch' = nosuch
          ELSE /\ uploads' = uploads
               /\ nosuch' = [nosuch EXCEPT ![r] = @ \cup {u}]
    /\ UNCHANGED <<objects, pc, selfVars, statsVars, mpu_id, mpu_ids, site, pre_live, calls,
                   uploadVars, exc>>

\* return abortions; the flow goes on after the call: create() after the
\* pre-cleanup, the re-raise after mongo_dump_to_s3's cleanup
abort_all_return(r) ==
    /\ pc[r] = "abort_all_loop"
    /\ idx[r] = Len(mpu_ids[r])
    /\ calls' = [calls EXCEPT ![r] = IF site[r] = "call" THEN @ + 1 ELSE @]
    /\ pc' = [pc EXCEPT ![r] =
                CASE site[r] = "pre" -> "create"
                  [] site[r] = "cleanup" -> "failed"
                  [] OTHER -> IF calls[r] + 1 < MaxCalls THEN "abort_all" ELSE "done"]
    /\ UNCHANGED <<storeVars, selfVars, statsVars, mpu_id, mpu_ids, idx, abortions, nosuch, site,
                   pre_live, uploadVars, exc>>

\* --------------------------------------------- S3MultipartUpload.create
create(r) ==
    /\ pc[r] = "create"
    /\ \/ /\ uploads' = Append(uploads, [Key |-> key[r], state |-> "live", parts |-> <<>>])
          /\ mpu_id' = [mpu_id EXCEPT ![r] = Len(uploads) + 1]
          /\ pc' = [pc EXCEPT ![r] = IF kind[r] = "dump" THEN "mongo_dump" ELSE "popen"]
          /\ exc' = exc
       \/ /\ Raise(r, "StoreError")
          /\ UNCHANGED <<uploads, mpu_id>>
    /\ UNCHANGED <<objects, selfVars, statsVars, abortVars, uploadVars>>

\* ------------------------------------ S3MultipartUpload.upload_from_stdout
first_part_number == 1

\* mutant: the part counter skips a number
next_part_number_skip(n) == n + 2

next_part_number(n) == n + 1

\* the producer just spawned: it will write L bytes to stdout and exit with
\* code rc; it writes its stderr output, of amount e, once it has written at
\* bytes to stdout, and goes on when that is written
spawned(L, rc, e, at) ==
    [state |-> "running", L |-> L, rc |-> rc, off |-> 0, returncode |-> None,
     err |-> e, err_at |-> at]

\* the stderr outputs told apart: only a large one has a position, before
\* the first or after the last byte of stdout
stderr_output(L, e, at) ==
    /\ at \in {0, L}
    /\ e # "large" => at = 0

\* 'stderr': subprocess.PIPE if capture_stderr else None: a pipe nobody
\* reads before communicate(), or the parent's stderr
\* mutant: stderr is never a pipe
stderr_piped_never(r) == FALSE

stderr_piped(r) == capture_stderr[r] \/ kind[r] = "dump"

\* subprocess.Popen(cmd_args, stdout=PIPE, stderr=...); what a producer
\* writes to an inherited stderr makes no difference to the run
upload_from_stdout_popen(r, L, rc, e, at) ==
    /\ pc[r] = "popen"
    /\ stderr_output(L, e, at)
    /\ ~stderr_piped(r) => e = "none"
    /\ process' = [process EXCEPT ![r] = spawned(L, rc, e, at)]
    /\ parts' = [parts EXCEPT ![r] = <<>>]
    /\ uploaded_bytes' = [uploaded_bytes EXCEPT ![r] = 0]
    /\ i' = [i EXCEPT ![r] = first_part_number]
    /\ pc' = [pc EXCEPT ![r] = "read"]
    /\ UNCHANGED <<storeVars, selfVars, statsVars, mpu_id, abortVars, chunk, complete_calls, exc>>

\* process.stdout.read(n) on the buffered pipe: blocks until n bytes were
\* read or the producer closed its stdout, so it returns the next n bytes
\* of the output, or all that is left of it
\* mutant: one raw read of the pipe, which delivers at most half a part
stdout_read_raw(r, n) ==
    [src |-> r, lo |-> process[r].off,
     hi |-> process[r].off + Min(Min(n, HalfPart), process[r].L - process[r].off)]

stdout_read(r, n) ==
    [src |-> r, lo |-> process[r].off,
     hi |-> process[r].off + Min(n, process[r].L - process[r].off)]

\* the producer cannot go on: it is writing to a stderr pipe that is full
\* and that nobody reads
stderr_blocked(r) ==
    /\ process[r].state = "running"
    /\ stderr_piped(r)
    /\ process[r].err = "large"

\* the bytes of stdout the producer gets to write
stdout_written(r) == IF stderr_blocked(r) THEN process[r].err_at ELSE process[r].L

\* read(n) returns: the pipe delivers n bytes more, or the producer closed
\* its stdout
read_returns(r, n) == process[r].off + n <= stdout_written(r) \/ ~stderr_blocked(r)

\* iter(..., b''): the empty chunk is the sentinel that ends the loop
loop_ends(r, c) == SliceLen(c) = 0

\* mutant: the next chunk is read while the last one is still being uploaded
upload_from_stdout_read_ahead(r) ==
    /\ pc[r] \in {"read", "upload_part"}
    /\ read_returns(r, chunk_size[r])
    /\ LET c == stdout_read(r, chunk_size[r]) IN
       IF loop_ends(r, c)
       THEN /\ pc[r] = "read"
            /\ pc' = [pc EXCEPT ![r] = "wait"]
            /\ UNCHANGED <<chunk, process>>
       ELSE /\ pc' = [pc EXCEPT ![r] = "upload_part"]
            /\ chunk' = [chunk EXCEPT ![r] =
                            IF pc[r] = "read" THEN c
                            ELSE [src |-> r, lo |-> @.lo, hi |-> c.hi]]
            /\ process' = [process EXCEPT ![r].off = c.hi]
    /\ UNCHANGED <<storeVars, selfVars, statsVars, mpu_id, abortVars, parts, uploaded_bytes, i,
                   complete_calls, exc>>

\* iter(lambda: process.stdout.read(self.chunk_size), b''): the next chunk,
\* or the end of the loop on the empty chunk
upload_from_stdout_read(r) ==
    /\ pc[r] = "read"
    /\ read_returns(r, chunk_size[r])
    /\ LET c == stdout_read(r, chunk_size[r]) IN
       IF loop_ends(r, c)
       THEN /\ pc' = [pc EXCEPT ![r] = "wait"]
            /\ UNCHANGED <<chunk, process>>
       ELSE /\ pc' = [pc EXCEPT ![r] = "upload_part"]
            /\ chunk' = [chunk EXCEPT ![r] = c]
            /\ process' = [process EXCEPT ![r].off = c.hi]
    /\ UNCHANGED <<storeVars, selfVars, statsVars, mpu_id, abortVars, parts, uploaded_bytes, i,
                   complete_calls, exc>>

\* mutant: the size counts the chunk size, not the chunk's length
uploaded_size_nominal(r, total, c) == total + chunk_size[r]

\* uploaded_bytes += len(chunk)
uploaded_size(r, total, c) == total + SliceLen(c)

\* the part record appended for an acknowledged upload_part
part_record(n, body) == [PartNumber |-> n, ETag |-> ETag(body)]

\* s3.upload_part(Body=chunk, ..., PartNumber=i) and the loop body after it;
\* the store stages the body under the part number of a live upload of the
\* key, answers NoSuchUpload for any other, or fails
upload_from_stdout_upload_part(r) ==
    /\ pc[r] = "upload_part"
    /\ \/ IF IsLive(mpu_id[r]) /\ uploads[mpu_id[r]].Key = key[r]
          THEN /\ uploads' = [uploads EXCEPT ![mpu_id[r]].parts =
                                 (i[r] :> chunk[r]) @@ @]
               /\ parts' = [parts EXCEPT ![r] = Append(@, part_record(i[r], chunk[r]))]
               /\ uploaded_bytes' = [uploaded_bytes EXCEPT ![r] = uploaded_size(r, @, chunk[r])]
               /\ i' = [i EXCEPT ![r] = next_part_number(@)]
               /\ chunk' = [chunk EXCEPT ![r] = NoChunk]
               /\ pc' = [pc EXCEPT ![r] = "read"]
               /\ exc' = exc
          ELSE /\ Raise(r, "NoSuchUpload")
               /\ UNCHANGED <<uploads, parts, uploaded_bytes, i, chunk>>
       \/ /\ Raise(r, "StoreError")
          /\ UNCHANGED <<uploads, parts, uploaded_bytes, i, chunk>>
    /\ UNCHANGED <<objects, selfVars, statsVars, mpu_id, abortVars, process, complete_calls>>

\* the producer exits by itself once all it writes was written
producer_exit(r) ==
    /\ process[r].state = "running"
    /\ process[r].off = process[r].L
    /\ ~stderr_blocked(r)
    /\ process' = [process EXCEPT ![r].state = "exited", ![r].returncode = process[r].rc]
    /\ UNCHANGED <<storeVars, pc, selfVars, statsVars, mpu_id, abortVars, parts, uploaded_bytes,
                   i, chunk, complete_calls, exc>>

\* mutant: the producer is left alone
terminate_skipped(p) == p

\* process.terminate(): a running producer is stopped
terminate(p) == [p EXCEPT !.state = IF @ = "running" THEN "terminated" ELSE @]

\* mutant: the return code is never taken for a failure
returncode_failed_never(rc) == FALSE

\* if process.returncode != 0
returncode_failed(rc) == rc # 0

\* mutant: the error does not carry the producer's code
called_process_error_generic(r) ==
    [type |-> "CalledProcessError", at |-> pc[r], returncode |-> Min(process[r].returncode, 1)]

\* subprocess.CalledProcessError(process.returncode, ...)
called_process_error(r) ==
    [type |-> "CalledProcessError", at |-> pc[r], returncode |-> process[r].returncode]

\* process.communicate(timeout=1.0) / process.wait(timeout=1.0), then the
\* return code: a producer still running when the second is over is
\* terminated and TimeoutExpired propagates
upload_from_stdout_wait(r) ==
    /\ pc[r] = "wait"
    /\ IF process[r].state = "exited"
       THEN /\ process' = process
            /\ IF returncode_failed(process[r].returncode)
               THEN /\ pc' = [pc EXCEPT ![r] = "failed"]
                    /\ exc' = [exc EXCEPT ![r] = called_process_error(r)]
               ELSE /\ pc' = [pc EXCEPT ![r] = "complete"]
                    /\ exc' = exc
       ELSE /\ process' = [process EXCEPT ![r] = terminate(@)]
            /\ Raise(r, "TimeoutExpired")
    /\ UNCHANGED <<storeVars, selfVars, statsVars, mpu_id, abortVars, parts, uploaded_bytes, i, chunk,
                   complete_calls>>

\* ------------------------------------------- S3MultipartUpload.complete
\* the store accepts a part list that names parts 1..N, N >= 1, each with
\* the tag of the body staged under its number
parts_accepted(u, P) ==
    /\ Len(P) >= 1
    /\ {P[n].PartNumber : n \in DOMAIN P} = 1..Len(P)
    /\ \A n \in DOMAIN P :
          /\ P[n].PartNumber \in DOMAIN uploads[u].parts
          /\ P[n].ETag = ETag(uploads[u].parts[P[n].PartNumber])

\* the object the store assembles: the staged bodies in part-number order
assembled(u, P) == [n \in 1..Len(P) |-> uploads[u].parts[n]]

complete(r) ==
    /\ pc[r] = "complete"
    /\ complete_calls' = [complete_calls EXCEPT ![r] = Append(@, parts[r])]
    /\ \/ IF /\ IsLive(mpu_id[r])
             /\ uploads[mpu_id[r]].Key = key[r]
             /\ parts_accepted(mpu_id[r], parts[r])
          THEN /\ objects' = [objects EXCEPT ![key[r]] =
                                 [upload |-> mpu_id[r],
                                  body |-> assembled(mpu_id[r], parts[r])]]
               /\ uploads' = [uploads EXCEPT ![mpu_id[r]].state = "completed"]
               /\ pc' = [pc EXCEPT ![r] = "done"]
               /\ exc' = exc
          ELSE /\ Raise(r, "InvalidState")
               /\ UNCHANGED storeVars
       \/ /\ Raise(r, "StoreError")
          /\ UNCHANGED storeVars
    /\ UNCHANGED <<selfVars, statsVars, mpu_id, abortVars, parts, uploaded_bytes, i, chunk, process>>

\* ------------------------------------------------------ mongo_dump_to_s3
\* mongo_dump(...) entered: mongodump is spawned and its stdout is yielded
mongo_dump_popen(r, L, rc, e, at) ==
    /\ pc[r] = "mongo_dump"
    /\ stderr_output(L, e, at)
    /\ process' = [process EXCEPT ![r] = spawned(L, rc, e, at)]
    /\ mongo_stats' = [mongo_stats EXCEPT ![r] = MongoStats]
    /\ pc' = [pc EXCEPT ![r] = "upload_from_stream"]
    /\ UNCHANGED <<storeVars, selfVars, stats, result, obj, mpu_id, abortVars, parts, uploaded_bytes, i,
                   chunk, complete_calls, exc>>

\* mutant: the except clause re-raises without the cleanup
mongo_dump_to_s3_no_cleanup(r) ==
    /\ pc[r] = "upload_from_stream"
    /\ process' = [process EXCEPT ![r] = terminate(@)]
    /\ \E dt \in Durations :
          /\ mongo_stats' = [mongo_stats EXCEPT ![r].time = measure_exit(@, TRUE, dt)]
          /\ stats' = [stats EXCEPT ![r].time = measure_exit(@, TRUE, dt)]
    /\ Raise(r, "AttributeError")
    /\ UNCHANGED <<storeVars, selfVars, result, obj, mpu_id, abortVars, parts, uploaded_bytes, i,
                   chunk, complete_calls>>

\* mpu.upload_from_stream(mpu_id, stream): S3MultipartUpload defines no such
\* method, so the call raises AttributeError; leaving the with block, the
\* error goes through mongo_dump's measure(), mongo_dump's finally, which
\* terminates the producer, and the orchestrator's measure(); the except
\* clause then calls abort_all() before it re-raises
mongo_dump_to_s3_upload_from_stream(r) ==
    /\ pc[r] = "upload_from_stream"
    /\ process' = [process EXCEPT ![r] = terminate(@)]
    /\ \E dt \in Durations :
          /\ mongo_stats' = [mongo_stats EXCEPT ![r].time = measure_exit(@, TRUE, dt)]
          /\ stats' = [stats EXCEPT ![r].time = measure_exit(@, TRUE, dt)]
    /\ exc' = [exc EXCEPT ![r] = [type |-> "AttributeError", at |-> pc[r]]]
    /\ site' = [site EXCEPT ![r] = "cleanup"]
    /\ pc' = [pc EXCEPT ![r] = "abort_all"]
    /\ UNCHANGED <<storeVars, selfVars, result, obj, mpu_id, mpu_ids, idx, abortions, nosuch,
                   pre_live, calls, parts, uploaded_bytes, i, chunk, complete_calls>>

\* ------------------------------------------------- mongo_restore_from_s3
\* the response of s3.get_object for the object at key k
get_object(k) == [ContentLength |-> SumLen(objects[k].body), Body |-> objects[k].body]

\* stats = BackupStats(...); obj = s3.get_object(Bucket=bucket, Key=key):
\* the store raises NoSuchKey when there is no object at the key
mongo_restore_from_s3_get_object(r, k) ==
    /\ pc[r] = "start"
    /\ kind' = [kind EXCEPT ![r] = "restore"]
    /\ key' = [key EXCEPT ![r] = k]
    /\ stats' = [stats EXCEPT ![r] = BackupStats(k)]
    /\ IF objects[k] = NoObject
       THEN /\ Raise(r, "NoSuchKey")
            /\ obj' = obj
       ELSE /\ pc' = [pc EXCEPT ![r] = "mongo_restore"]
            /\ obj' = [obj EXCEPT ![r] = get_object(k)]
            /\ exc' = exc
    /\ UNCHANGED <<storeVars, chunk_size, capture_stderr, mpu_id, abortVars, uploadVars,
                   mongo_stats, result>>

\* mongo_restore's MongoStats when its measured block is left: run with
\* check=True raises on a return code other than 0; the count is that of
\* the 'finished restoring' line less the duplicates, and with no such
\* line num_docs is None and 'stats.num_docs -= ...' raises TypeError;
\* duplicated_ids is modelled by its length
mongo_restore_raises(rc, num) == rc # 0 \/ num = <<>>

mongo_restore_stats(rc, num, dups, dt) ==
    [num_docs |-> IF mongo_restore_raises(rc, num) THEN Nothing ELSE Just(num[1] - dups),
     time |-> measure_exit(Nothing, mongo_restore_raises(rc, num), dt),
     duplicated_ids |-> IF rc # 0 THEN Nothing ELSE Just(dups)]

\* mutant: the BackupStats is returned
mongo_restore_from_s3_result_stats(st, restore_stats) == st

\* return restore_stats
mongo_restore_from_s3_result(st, restore_stats) == restore_stats

\* with stats.measure(): ... restore_stats = mongo_restore(...), then
\* stats.size, stats.num_docs and the return; an exception of mongo_restore
\* leaves both measured blocks and the function
mongo_restore_from_s3_mongo_restore(r, rc, num, dups, dt, du) ==
    /\ pc[r] = "mongo_restore"
    /\ num # <<>> => dups <= num[1]
    /\ LET restore_stats == mongo_restore_stats(rc, num, dups, dt)
           raised == mongo_restore_raises(rc, num)
           st == [stats[r] EXCEPT !.time = measure_exit(@, raised, du),
                                  !.size = IF raised THEN @ ELSE Just(obj[r].ContentLength),
                                  !.num_docs = IF raised THEN @ ELSE restore_stats.num_docs]
       IN  /\ mongo_stats' = [mongo_stats EXCEPT ![r] = restore_stats]
           /\ stats' = [stats EXCEPT ![r] = st]
           /\ IF raised
              THEN /\ Raise(r, IF rc # 0 THEN "CalledProcessError" ELSE "TypeError")
                   /\ result' = result
              ELSE /\ result' = [result EXCEPT ![r] =
                                    Just(mongo_restore_from_s3_result(st, restore_stats))]
                   /\ pc' = [pc EXCEPT ![r] = "done"]
                   /\ exc' = exc
    /\ UNCHANGED <<storeVars, selfVars, obj, mpu_id, abortVars, uploadVars>>

\* --------------------------------------------------------------- runs
\* a step of run r, its inputs drawn from the given sets
Step(r, KDs, Ks, CSs, Ls, RCs, Es) ==
    \/ \E kd \in KDs, k \in Ks, cs \in CSs, cap \in BOOLEAN :
          construct(r, kd, k, cs, cap)
    \/ abort_all_list(r)
    \/ abort_all_abort(r)
    \/ abort_all_return(r)
    \/ create(r)
    \/ \E L \in Ls, rc \in RCs, e \in Es : \E at \in {0, L} : upload_from_stdout_popen(r, L, rc, e, at)
    \/ upload_from_stdout_read(r)
    \/ upload_from_stdout_upload_part(r)
    \/ producer_exit(r)
    \/ upload_from_stdout_wait(r)
    \/ complete(r)
    \/ \E L \in Ls, rc \in RCs, e \in Es : \E at \in {0, L} : mongo_dump_popen(r, L, rc, e, at)
    \/ mongo_dump_to_s3_upload_from_stream(r)

\* one run at a time on the bucket
Next == Step("r1", Kinds, Keys, ChunkSizeArgs, Lengths, ExitCodes, StderrAmounts)

Spec == Init /\ [][Next]_vars

\* two runs on one key of the bucket, interleaved at every store call
InitRace == Init /\ Len(uploads) <= MaxRaceStale

NextRace ==
    \E r \in Runs :
        Step(r, RaceKinds, RaceKeys, RaceChunkSizeArgs, RaceLengths, RaceExitCodes,
             RaceStderrAmounts)

SpecRace == InitRace /\ [][NextRace]_vars

\* an error of the store other than NoSuchUpload (no connection, access
\* denied, throttling) in abort_all's listing or in one of its abort calls:
\* abort_all catches KeyError and NoSuchUpload only, so it propagates
abort_all_store_error(r) ==
    /\ \/ pc[r] = "abort_all"
       \/ pc[r] = "abort_all_loop" /\ idx[r] < Len(mpu_ids[r])
    /\ Raise(r, "StoreError")
    /\ UNCHANGED <<storeVars, selfVars, statsVars, mpu_id, abortVars, uploadVars>>

\* one run on a store whose listing and abort calls may fail too
NextOutage == Next \/ abort_all_store_error("r1")

SpecOutage == Init /\ [][NextOutage]_vars

\* dumps stored at a key by earlier runs
StoredDumps ==
    {[upload |-> -1, body |-> <<[src |-> "dump", lo |-> 0, hi |-> n]>>] : n \in {1, HalfPart}}

\* runs that dump to a key and restore from it, on a bucket that may hold
\* a dump already
InitRestore ==
    /\ uploads = <<>>
    /\ \E o \in StoredDumps \cup {NoObject} :
          objects = [k \in Keys |-> IF k \in RaceKeys THEN o ELSE NoObject]
    /\ InitRuns

NextRestore ==
    \E r \in Runs :
        \/ Step(r, RestoreKinds, RaceKeys, RaceChunkSizeArgs, RaceLengths, RaceExitCodes,
                RaceStderrAmounts)
        \/ \E k \in RaceKeys : mongo_restore_from_s3_get_object(r, k)
        \/ \E rc \in ExitCodes, num \in ReportedCounts, dups \in DuplicateCounts,
              dt \in Durations, du \in Durations :
              mongo_restore_from_s3_mongo_restore(r, rc, num, dups, dt, du)

SpecRestore == InitRestore /\ [][NextRestore]_vars

\* ------------------------------------------------------------- claims
\* run r went through upload_from_stdout's Popen
Spawned(r) == kind[r] \in {"main", "api"} /\ process[r].state # "none"

\* the read loop of upload_from_stdout ended on the empty chunk
LoopEnded(r) ==
    /\ Spawned(r)
    /\ \/ pc[r] \in {"wait", "complete", "done"}
       \/ pc[r] = "failed" /\ exc[r].at \in {"wait", "complete"}

\* the bodies the store staged for the part records of run r, in list order
StagedBodies(r) ==
    [n \in 1..Len(parts[r]) |-> uploads[mpu_id[r]].parts[parts[r][n].PartNumber]]

CeilDiv(a, b) == (a + b - 1) \div b

\* C1: in upload_from_stdout the k-th upload_part call uses PartNumber k:
\* the next number is one more than the number of parts uploaded so far, the
\* n-th part record has PartNumber n, and the store has staged exactly the
\* numbers 1..N (no gap, no duplicate).
C1_PartNumbers ==
    \A r \in Runs : Spawned(r) =>
        /\ i[r] = Len(parts[r]) + 1
        /\ \A n \in DOMAIN parts[r] : parts[r][n].PartNumber = n
        /\ DOMAIN uploads[mpu_id[r]].parts = 1..Len(parts[r])

C1_Witness == pc["r1"] = "complete" /\ Len(parts["r1"]) = 3

\* C2: when the read loop has ended for a producer that wrote L bytes, with
\* chunk size C, ceil(L / C) parts were uploaded, all but the last of C
\* bytes, the last of L mod C bytes (C when C divides L), and the bodies in
\* part-number order are the producer's output.
C2_Chunking ==
    \A r \in Runs : LoopEnded(r) =>
        LET L == process[r].L
            C == chunk_size[r]
            N == Len(parts[r])
            B == StagedBodies(r)
        IN  /\ N = CeilDiv(L, C)
            /\ \A n \in 1..(N - 1) : SliceLen(B[n]) = C
            /\ N >= 1 => SliceLen(B[N]) = (IF L % C = 0 THEN C ELSE L % C)
            /\ Bytes(B) = Payload(r)

C2_Witness ==
    /\ LoopEnded("r1")
    /\ Len(parts["r1"]) = 3
    /\ process["r1"].L % chunk_size["r1"] # 0

\* C3: after create() -> upload_from_stdout -> complete() for a payload of
\* S >= 1 bytes the object at the key is the payload, the returned size is
\* S and is the sum of the part lengths; the store never refuses the part
\* list of a payload of S >= 1 bytes.
C3_RoundTrip ==
    \A r \in Runs : Spawned(r) /\ process[r].L >= 1 =>
        /\ pc[r] = "done" =>
              /\ objects[key[r]].upload = mpu_id[r]
              /\ Bytes(objects[key[r]].body) = Payload(r)
              /\ uploaded_bytes[r] = process[r].L
              /\ uploaded_bytes[r] = SumLen(StagedBodies(r))
        /\ exc[r].type # "InvalidState"

C3_Witness ==
    /\ pc["r1"] = "done"
    /\ kind["r1"] = "api"
    /\ Len(parts["r1"]) = 2
    /\ process["r1"].L = PART_MINIMUM + 1

\* C4: S3MultipartUpload offers upload_from_stream, so the call made by
\* mongo_dump_to_s3 returns parts and a size and never fails for want of
\* the method.
C4_UploadFromStreamOffered ==
    \A r \in Runs : kind[r] = "dump" => exc[r].type # "AttributeError"

\* abort_all of run r has gone through its list and is at `return abortions`
AtReturn(r) == pc[r] = "abort_all_loop" /\ idx[r] = Len(mpu_ids[r])

\* C5: when abort_all() returns for a key that had N live uploads, none is
\* live for the key and the returned list holds exactly those N ids, each
\* once; the call made right after by the same caller returns the empty list.
C5_AbortAllPost ==
    \A r \in Runs : AtReturn(r) =>
        /\ LiveIds(key[r]) = {}
        /\ Range(abortions[r]) = pre_live[r]
        /\ Len(abortions[r]) = Cardinality(pre_live[r])
        /\ site[r] = "call" /\ calls[r] >= 1 => abortions[r] = <<>>

C5_Witness ==
    /\ AtReturn("r1")
    /\ calls["r1"] = 1
    /\ Cardinality({u \in DOMAIN uploads :
                      uploads[u].Key = key["r1"] /\ uploads[u].state = "aborted"}) = 2

\* C6: abort_all() for key K leaves every upload of another key live, and
\* reports none of them.
C6_AbortAllFrame ==
    \A r \in Runs : pc[r] # "start" =>
        \A u \in DOMAIN uploads : uploads[u].Key # key[r] =>
            /\ uploads[u].state = "live"
            /\ u \notin Range(abortions[r])

C6_Witness ==
    /\ AtReturn("r1")
    /\ abortions["r1"] # <<>>
    /\ \E u \in DOMAIN uploads : uploads[u].Key # key["r1"] /\ uploads[u].state = "live"

\* C7: a NoSuchUpload answer to one of the listed ids does not end
\* abort_all: the loop goes on to the ids listed after it, and the ids it
\* returns are the listed ids less those the store did not recognise.
C7_NoSuchUploadSwallowed ==
    \A r \in Runs :
        /\ exc[r].type = "NoSuchUpload" => exc[r].at \notin {"abort_all", "abort_all_loop"}
        /\ pc[r] = "abort_all_loop" =>
              /\ Range(abortions[r]) \cap nosuch[r] = {}
              /\ Range(abortions[r]) \cup nosuch[r] = Range(SubSeq(mpu_ids[r], 1, idx[r]))

C7_Witness ==
    /\ AtReturn("r1")
    /\ mpu_ids["r1"] = <<1, 2>>
    /\ nosuch["r1"] = {1}
    /\ abortions["r1"] = <<2>>

C9_AbortOnFailure ==
    \A r \in Runs : kind[r] = "dump" /\ pc[r] = "failed" /\ mpu_id[r] # 0 =>
        /\ LiveIds(key[r]) = {}
        /\ uploads[mpu_id[r]].state = "aborted"
        /\ objects[key[r]].upload # mpu_id[r]

C9_Witness ==
    /\ kind["r1"] = "dump"
    /\ pc["r1"] = "failed"
    /\ mpu_id["r1"] # 0
    /\ uploads[mpu_id["r1"]].state = "aborted"
    /\ process["r1"].state = "exited"
    /\ process["r1"].rc = 1

\* C10: every upload main() created is completed or aborted when main() has
\* ended; after a failure of upload_from_stdout it is aborted.
C10_MainAbortsOnFailure ==
    \A r \in Runs : kind[r] = "main" /\ mpu_id[r] # 0 =>
        /\ pc[r] = "done" => uploads[mpu_id[r]].state = "completed"
        /\ pc[r] = "failed" => uploads[mpu_id[r]].state = "aborted"

\* run r, an orchestrator, is about to call complete() or has called it
Completing(r) ==
    /\ kind[r] \in {"main", "dump"}
    /\ pc[r] = "complete" \/ complete_calls[r] # <<>>

\* C11: an orchestrator run calls complete() only when the end of the stream
\* was reached with every chunk uploaded and the producer was reaped with
\* exit status 0; it calls it at most once, with the part records accumulated
\* while streaming, and never after a failed part upload, a non-zero exit or
\* a reap timeout.
C11_CompleteOnlyAfterSuccess ==
    \A r \in Runs :
        /\ kind[r] \in {"main", "dump"} => Len(complete_calls[r]) <= 1
        /\ Completing(r) =>
              /\ process[r].off = process[r].L
              /\ chunk[r] = NoChunk
              /\ uploaded_bytes[r] = process[r].L
              /\ process[r].state = "exited"
              /\ process[r].returncode = 0
              /\ exc[r].at \in {None, "complete"}
              /\ exc[r].type \notin {"CalledProcessError", "TimeoutExpired", "NoSuchUpload"}
              /\ \A n \in DOMAIN complete_calls[r] :
                    /\ complete_calls[r][n] = parts[r]
                    /\ {parts[r][m].PartNumber : m \in DOMAIN parts[r]}
                          = DOMAIN uploads[mpu_id[r]].parts

C11_Witness ==
    /\ kind["r1"] = "main"
    /\ pc["r1"] = "done"
    /\ Len(complete_calls["r1"]) = 1
    /\ Len(complete_calls["r1"][1]) = 2

\* C12: when the streaming of mongo_dump_to_s3 fails with an error E, a
\* failure of the cleanup abort_all() is not raised in its place: the error
\* that ends the run is E, raised where the streaming failed.
C12_OriginalErrorReachesCaller ==
    \A r \in Runs : kind[r] = "dump" /\ site[r] = "cleanup" /\ pc[r] = "failed" =>
        /\ exc[r].type = "AttributeError"
        /\ exc[r].at = "upload_from_stream"

\* C13: when the producer has exited by itself with a code c other than 0,
\* upload_from_stdout raises CalledProcessError with return code c and
\* returns no result; the error is raised only after the whole of the
\* producer's stdout was read and uploaded.
C13_NonZeroExit ==
    \A r \in Runs : Spawned(r) =>
        /\ exc[r].type = "CalledProcessError" =>
              /\ pc[r] = "failed"
              /\ exc[r].at = "wait"
              /\ exc[r].returncode = process[r].rc
              /\ process[r].rc # 0
              /\ process[r].state = "exited"
              /\ process[r].off = process[r].L
              /\ chunk[r] = NoChunk
              /\ uploaded_bytes[r] = process[r].L
              /\ Bytes(StagedBodies(r)) = Payload(r)
              /\ complete_calls[r] = <<>>
        /\ LoopEnded(r) /\ pc[r] # "wait" /\ process[r].state = "exited" /\ process[r].rc # 0
              => exc[r].type = "CalledProcessError"

C13_Witness ==
    /\ kind["r1"] = "main"
    /\ pc["r1"] = "failed"
    /\ exc["r1"].type = "CalledProcessError"
    /\ exc["r1"].returncode = 2
    /\ Len(parts["r1"]) = 2

\* C14: when the producer has closed its stdout but has not exited when the
\* grace period of the reap is over, upload_from_stdout terminates it and
\* raises TimeoutExpired, with capture_stderr (communicate) and without
\* (wait); the producer is terminated only after the end of its stream and
\* before the error leaves the call.
C14_ReapTimeout ==
    \A r \in Runs : Spawned(r) =>
        /\ exc[r].type = "TimeoutExpired" =>
              /\ pc[r] = "failed"
              /\ exc[r].at = "wait"
              /\ process[r].state = "terminated"
              /\ complete_calls[r] = <<>>
        /\ LoopEnded(r) /\ pc[r] # "wait" /\ process[r].state # "exited"
              => exc[r].type = "TimeoutExpired"
        /\ process[r].state = "terminated" =>
              /\ exc[r].type = "TimeoutExpired"
              /\ process[r].off = process[r].L
              /\ chunk[r] = NoChunk

C14_Witness ==
    /\ kind["r1"] = "api"
    /\ capture_stderr["r1"]
    /\ process["r1"].err = "small"
    /\ pc["r1"] = "failed"
    /\ exc["r1"].type = "TimeoutExpired"
    /\ process["r1"].state = "terminated"
    /\ Len(parts["r1"]) = 2

\* C15: when an exception is raised while the producer's stream is being
\* consumed, the producer is terminated before the exception leaves the
\* supervising code: a run that ended on such an exception has no producer
\* still running, be it spawned by upload_from_stdout or by mongo_dump.
C15_ProducerTerminatedOnError ==
    \A r \in Runs :
        /\ pc[r] = "failed"
        /\ exc[r].at \in {"upload_part", "upload_from_stream"}
        => process[r].state \in {"terminated", "exited"}

\* C16: no S3MultipartUpload is constructed with an effective chunk size
\* below PART_MINIMUM (the construction fails, and nothing is done with the
\* object), a chunk size that is not given is 15,000,000, and so in every
\* transfer of upload_from_stdout each part that is followed by another
\* part or chunk has at least PART_MINIMUM bytes; only the last may be
\* shorter.
C16_MinimumPartSize ==
    \A r \in Runs : pc[r] # "start" =>
        /\ exc[r].type # "AssertionError" => chunk_size[r] >= PART_MINIMUM
        /\ exc[r].type = "AssertionError" =>
              /\ chunk_size[r] < PART_MINIMUM
              /\ exc[r].at = "start"
              /\ mpu_id[r] = 0
              /\ process[r] = NoProcess
        /\ kind[r] \in {"main", "abort"} => chunk_size[r] = 15000000
        /\ Spawned(r) =>
              \A n \in DOMAIN uploads[mpu_id[r]].parts :
                  n < Len(parts[r]) \/ chunk[r] # NoChunk
                  => SliceLen(uploads[mpu_id[r]].parts[n]) >= 6000000

C16_Witness ==
    /\ pc["r1"] = "complete"
    /\ chunk_size["r1"] = PART_MINIMUM
    /\ Len(parts["r1"]) = 3
    /\ SliceLen(uploads[mpu_id["r1"]].parts[3]) = 1

\* C17: upload_from_stdout is strictly sequential: it holds at most one
\* chunk, of at most chunk_size bytes, which is the one upload_part call in
\* flight; the bytes read from the producer and not yet acknowledged are
\* that chunk, the part number in flight is not staged yet, and the next
\* read is issued with no chunk held.
C17_Sequential ==
    \A r \in Runs : Spawned(r) =>
        /\ SliceLen(chunk[r]) <= chunk_size[r]
        /\ process[r].off = uploaded_bytes[r] + SliceLen(chunk[r])
        /\ pc[r] = "read" => chunk[r] = NoChunk
        /\ chunk[r] # NoChunk =>
              /\ pc[r] = "upload_part" \/ (pc[r] = "failed" /\ exc[r].at = "upload_part")
              /\ chunk[r].lo = uploaded_bytes[r]
              /\ i[r] \notin DOMAIN uploads[mpu_id[r]].parts

C17_Witness ==
    /\ pc["r1"] = "upload_part"
    /\ Len(parts["r1"]) = 2
    /\ SliceLen(chunk["r1"]) = chunk_size["r1"]
    /\ process["r1"].off < process["r1"].L

\* C18: when the producer wrote nothing to stdout, the read loop still
\* uploads the empty remainder as one part of length zero: the transfer has
\* one part record and complete() is called with a part list that is not
\* empty.
C18_EmptyPayloadPart ==
    \A r \in Runs :
        /\ LoopEnded(r) /\ process[r].L = 0 =>
              /\ Len(parts[r]) = 1
              /\ DOMAIN uploads[mpu_id[r]].parts = {1}
              /\ SliceLen(uploads[mpu_id[r]].parts[1]) = 0
        /\ \A n \in DOMAIN complete_calls[r] : complete_calls[r][n] # <<>>

\* run r waits in process.stdout.read() for bytes or an end of stream that
\* cannot come: its producer waits for room in the stderr pipe, which is
\* read only after the loop
Deadlocked(r) ==
    /\ pc[r] = "read"
    /\ stderr_blocked(r)
    /\ ~read_returns(r, chunk_size[r])

\* C19: capturing stderr cannot deadlock: whatever finite amounts the
\* producer writes to stdout and stderr, in whatever order, no state is
\* reached in which upload_from_stdout is blocked reading stdout while the
\* producer is blocked writing to a full stderr pipe nobody reads.
C19_NoStderrDeadlock == \A r \in Runs : ~Deadlocked(r)

\* C20: two runs on one key are not isolated. abort_all() of a run takes
\* every upload that is live for the key when it lists, the one another run
\* created and still works on included, and when it has returned none of
\* them is live; an upload_part or complete call that the store refuses for
\* want of the upload is the call of a run whose upload was so aborted. The
\* witness is the interleaving the claim names: both runs list before either
\* creates, two uploads are live for the key, the cleanup of the run that
\* failed aborts both and the other run's upload_part fails.
C20_NotIsolated ==
    \A r \in Runs : \A q \in Runs \ {r} :
        /\ pc[r] = "abort_all_loop" /\ mpu_id[q] \in pre_live[r]
              => mpu_id[q] \in Range(mpu_ids[r])
        /\ AtReturn(r) /\ mpu_id[q] \in pre_live[r] => ~IsLive(mpu_id[q])
        /\ exc[q].type \in {"NoSuchUpload", "InvalidState"} =>
              /\ exc[q].at \in {"upload_part", "complete"}
              /\ uploads[mpu_id[q]].state = "aborted"
              /\ kind[r] # None

C20_Witness ==
    /\ kind["r1"] = "dump"
    /\ kind["r2"] = "main"
    /\ site["r1"] = "cleanup"
    /\ mpu_id["r1"] # 0
    /\ mpu_id["r2"] # 0
    /\ {mpu_id["r1"], mpu_id["r2"]} \subseteq pre_live["r1"]
    /\ mpu_id["r2"] \in Range(abortions["r1"])
    /\ pc["r2"] = "failed"
    /\ exc["r2"].type = "NoSuchUpload"
    /\ exc["r2"].at = "upload_part"

\* C21: BackupStats.measure() and MongoStats.measure() set the time field
\* only when the measured block is left normally: after a block that raised
\* the field is still None (not zero) and the error that ends the run is the
\* one the block raised; after a block that did not raise the field holds
\* the elapsed time.
C21_CommitOnSuccess ==
    \A r \in Runs :
        /\ kind[r] = "dump" /\ exc[r].at = "upload_from_stream" =>
              /\ stats[r].time = Nothing
              /\ mongo_stats[r].time = Nothing
              /\ exc[r].type = "AttributeError"
        /\ kind[r] = "restore" /\ exc[r].at = "mongo_restore" =>
              /\ pc[r] = "failed"
              /\ stats[r].time = Nothing
              /\ mongo_stats[r].time = Nothing
              /\ exc[r].type \in {"CalledProcessError", "TypeError"}
              /\ result[r] = Nothing
        /\ kind[r] = "restore" /\ pc[r] = "done" =>
              /\ stats[r].time \in {Just(dt) : dt \in Durations}
              /\ mongo_stats[r].time \in {Just(dt) : dt \in Durations}

C21_Witness ==
    /\ kind["r1"] = "restore"
    /\ pc["r1"] = "failed"
    /\ exc["r1"].type = "CalledProcessError"
    /\ stats["r1"].time = Nothing
    /\ mongo_stats["r1"].time = Nothing
    /\ kind["r2"] = "restore"
    /\ pc["r2"] = "done"
    /\ stats["r2"].time = Just(0)

\* C22: the orchestrators return their BackupStats: when
\* mongo_restore_from_s3 has returned, what it returned is the BackupStats it
\* built, with bucket and key set, size the ContentLength of the object and
\* num_docs the document count of the restore.
C22_StatsReturned ==
    \A r \in Runs : kind[r] = "restore" /\ pc[r] = "done" =>
        /\ stats[r].bucket = "bucket"
        /\ stats[r].key = key[r]
        /\ stats[r].size = Just(obj[r].ContentLength)
        /\ stats[r].num_docs = mongo_stats[r].num_docs
        /\ result[r] = Just(stats[r])

====
